---- MODULE Spec2Model ----
(***************************************************************************)
(* The two UrhebertAnalyzer variants of the repository:                    *)
(*   src/main.py  store lookup, then a tool-call / classification research *)
(*   src/new.py   a single Responses-API research call, no store           *)
(*                                                                         *)
(* Encoding of Python values                                               *)
(*   str that a regex reads      sequence of one-character strings         *)
(*   other str                   TLA+ string                               *)
(*   dict                        record; a key is present iff it is in the *)
(*                               record's DOMAIN                           *)
(*   None in a str slot          None     (the string "None")              *)
(*   None in a dict slot         NoneObj  (a record with the one key       *)
(*                               NoneType)                                 *)
(*   float confidence            tenths (1.0 -> 10, 0.8 -> 8, 0.9 -> 9)    *)
(*   dict key "begründung"       begruendung                               *)
(***************************************************************************)
EXTENDS Integers, Sequences, FiniteSets, TLC

VARIABLES
    collection,   \* the MongoDB collection handed to analyze as kwargs["collection"]
    client,       \* self.client of the analyzer instance
    last,         \* the most recent analyze call: inputs, provider exchange, outcome
    repeat,       \* what the most recent analyze call shares with the one before it
    lookup        \* the most recent direct _check_database_for_domain call

vars == <<collection, client, last, repeat, lookup>>

\* Largest number of records in a store.
MaxRecords == 2

None == "None"
NoneObj == [NoneType |-> TRUE]
EmptyDict == [key \in {} |-> None]
IsNone(v) == "NoneType" \in DOMAIN v

\* dict.get(key, default)
Get(d, key, default) == IF key \in DOMAIN d THEN d[key] ELSE default

\* Python truthiness of a str-or-None value
Truthy(s) == s # None /\ s # ""

\* dict.update(other) / item assignment: other's keys win
Update(d, other) == other @@ d

CONFIDENCE_DATABASE == 10
CONFIDENCE_WEB_SEARCH == 8
CONFIDENCE_RESPONSES_API == 9

\* The seven categories the prompts list.
Categories ==
    { "staatlich", "nicht staatliche Hilfsorganisation", "sonstige Vereine",
      "Organisationen", "Gemeinschaften", "Unternehmen", "Privatperson" }

(***************************************************************************)
(* Strings read by the $regex query                                        *)
(***************************************************************************)
Lower(c) == CASE c = "A" -> "a" [] c = "B" -> "b" [] OTHER -> c

\* f"{domain}.{tld}"
FullDomain(domain, tld) == domain \o <<".">> \o tld

\* {"$regex": pattern, "$options": "i"} applied to text: an unanchored,
\* case-insensitive search in which "." matches any character.
RegexSearch(pattern, text) ==
    \E off \in 0..(Len(text) - Len(pattern)) :
        \A i \in 1..Len(pattern) :
            \/ pattern[i] = "."
            \/ Lower(pattern[i]) = Lower(text[off + i])

\* {"$exists": True, "$ne": ""} applied to a record's urheber field
UrheberQuery(rec) == "urheber" \in DOMAIN rec /\ rec.urheber # ""

\* find_one picking the last matching record instead of the first
find_one_last(coll, domain) ==
    LET hits == { i \in 1..Len(coll.records) :
                    /\ RegexSearch(domain, coll.records[i].domain)
                    /\ UrheberQuery(coll.records[i]) }
    IN  IF hits = {} THEN NoneObj
        ELSE LET final == CHOOSE i \in hits : \A j \in hits : i >= j
             IN  [urheber |-> coll.records[final].urheber]

\* collection.find_one(query, {"urheber": 1, "_id": 0}): the first record in
\* natural order that satisfies both parts of the $and query, projected to
\* its urheber field; None when no record does.
find_one(coll, domain) ==
    LET hits == { i \in 1..Len(coll.records) :
                    /\ RegexSearch(domain, coll.records[i].domain)
                    /\ UrheberQuery(coll.records[i]) }
    IN  IF hits = {} THEN NoneObj
        ELSE LET first == CHOOSE i \in hits : \A j \in hits : i <= j
             IN  [urheber |-> coll.records[first].urheber]

\* _check_database_for_domain without its try/except: the store's exception
\* leaves the function
_check_database_for_domain_uncaught(coll, domain) ==
    IF coll.kind = "raising"
    THEN [raised |-> TRUE, value |-> "ServerSelectionTimeoutError"]
    ELSE LET result == find_one(coll, domain)
         IN  IF ~IsNone(result) /\ "urheber" \in DOMAIN result
             THEN [raised |-> FALSE, value |-> result.urheber]
             ELSE [raised |-> FALSE, value |-> None]

\* _check_database_for_domain: a raising collection is caught and gives None.
_check_database_for_domain(coll, domain) ==
    IF coll.kind = "raising"
    THEN [raised |-> FALSE, value |-> None]
    ELSE LET result == find_one(coll, domain)
         IN  IF ~IsNone(result) /\ "urheber" \in DOMAIN result
             THEN [raised |-> FALSE, value |-> result.urheber]
             ELSE [raised |-> FALSE, value |-> None]

(***************************************************************************)
(* The research provider (self.client), as the responses it gives          *)
(***************************************************************************)
\* An exception raised by a provider call; str(e) is its message.
Raise(m) == [raise |-> TRUE, message |-> m]
ExceptionMessages == { "", "Connection error." }
Raises == { Raise(m) : m \in ExceptionMessages }

\* A response the code never asks for.
Unused == [raise |-> FALSE, unused |-> TRUE]

\* JSON texts: malformed, an array, or an object (the dict it decodes to).
Malformed == [json |-> "malformed"]
JsonArray == [json |-> "array"]
JsonObject(d) == [json |-> "object", value |-> d]
PyList == [list |-> TRUE]
IsDict(v) == "list" \notin DOMAIN v

\* json.loads
json_loads(text) ==
    CASE text.json = "malformed" ->
            [raised |-> TRUE, message |-> "Expecting value: line 1 column 1 (char 0)"]
      [] text.json = "array"  -> [raised |-> FALSE, value |-> PyList]
      [] text.json = "object" -> [raised |-> FALSE, value |-> text.value]

\* urheber values a classification payload may carry: two of the seven
\* categories, a label outside them, and the failure label.
PayloadUrheber == { "Unternehmen", "staatlich", "Behoerde", "unbekannt" }
Extras == [begruendung |-> "Impressum", quellen |-> <<"https://a.b/impressum">>]

\* message.content of the classification answer / response.output_text
Payloads ==
    { Malformed, JsonArray, JsonObject(Extras) }
    \cup { JsonObject([urheber |-> u]) : u \in PayloadUrheber }
    \cup { JsonObject(Update(Extras, [urheber |-> u])) : u \in PayloadUrheber }
Content(c) == [raise |-> FALSE, content |-> c]

\* First chat completion of src/main.py: no tool call, or a tool call whose
\* function.arguments is a JSON text.
NoToolCall == [raise |-> FALSE, tool_calls |-> FALSE]
ToolCall(arguments) == [raise |-> FALSE, tool_calls |-> TRUE, arguments |-> arguments]
SearchResults == Content([text |-> "Search results for the domain"])

\* What the provider answers to the up to three chat completions of one
\* src/main.py research; calls the code does not reach are Unused.
MainProviders ==
    { [search |-> s, results |-> Unused, classification |-> Unused] :
        s \in Raises \cup { ToolCall(Malformed) } }
    \cup { [search |-> ToolCall(JsonObject([query |-> "a.b"])), results |-> r,
            classification |-> Unused] : r \in Raises }
    \cup { [search |-> ToolCall(JsonObject([query |-> "a.b"])), results |-> SearchResults,
            classification |-> c] : c \in Raises \cup { Content(p) : p \in Payloads } }
    \cup { [search |-> NoToolCall, results |-> Unused, classification |-> c] :
            c \in Raises \cup { Content(p) : p \in Payloads } }

\* What the provider answers to the one responses.create of src/new.py.
NewProviders == Raises \cup { Content(p) : p \in Payloads }

(***************************************************************************)
(* src/main.py research                                                    *)
(***************************************************************************)
\* BaseAnalyzer._process_response (response normalization): decodes the JSON
\* text, rejects anything but an object whose urheber is one of the seven
\* categories, and fills a missing justification or source list with an
\* empty one.
_process_response(content) ==
    LET parsed == json_loads(content)
    IN  IF parsed.raised THEN parsed
        ELSE IF ~IsDict(parsed.value) \/ "urheber" \notin DOMAIN parsed.value
             THEN [raised |-> TRUE, message |-> "Invalid response format"]
        ELSE IF parsed.value.urheber \notin Categories
             THEN [raised |-> TRUE, message |-> "Invalid urheber category"]
        ELSE [raised |-> FALSE,
              value |-> Update([begruendung |-> "", quellen |-> <<>>], parsed.value)]

\* An except branch that reports a fixed text instead of str(e)
ErrorResult_fixed_text(message, domain) ==
    [urheber |-> "unbekannt", confidence |-> 0, method |-> "error",
     error |-> "Research failed", domain |-> domain]

\* The except branch of both research steps.
ErrorResult(message, domain) ==
    [urheber |-> "unbekannt", confidence |-> 0, method |-> "error",
     error |-> message, domain |-> domain]

\* _research_domain_with_web_search: the provider responses it consumed, in
\* order, and the dict it returns.
_research_domain_with_web_search(domain, url, provider) ==
    LET search == provider.search
        results == provider.results
        classification == provider.classification
        failed(responses, message) ==
            [responses |-> responses, result |-> ErrorResult(message, domain)]
    IN  IF search.raise THEN failed(<<search>>, search.message)
        ELSE IF search.tool_calls /\ json_loads(search.arguments).raised
             THEN failed(<<search>>, json_loads(search.arguments).message)
        ELSE IF search.tool_calls /\ results.raise
             THEN failed(<<search, results>>, results.message)
        ELSE LET responses == IF search.tool_calls
                              THEN <<search, results, classification>>
                              ELSE <<search, classification>>
             IN  IF classification.raise
                 THEN failed(responses, classification.message)
                 ELSE LET result == _process_response(classification.content)
                      IN  IF result.raised
                          THEN failed(responses, result.message)
                          ELSE [responses |-> responses,
                                result |-> Update(result.value,
                                    [method |-> "web_search",
                                     confidence |-> CONFIDENCE_WEB_SEARCH,
                                     domain |-> domain])]

(***************************************************************************)
(* analyze                                                                 *)
(***************************************************************************)
\* An exception leaving analyze, and a dict returned by it.
Raised(type, message) ==
    [status |-> "raised", value |-> [exception |-> type, message |-> message]]
Returned(result) == [status |-> "returned", value |-> result]

\* One analyze call: its outcome, the _check_database_for_domain and research
\* calls it made (with their arguments) and the provider responses it consumed.
Call(outcome, lookups, research, responses) ==
    [status |-> outcome.status, value |-> outcome.value,
     lookups |-> lookups, research |-> research, responses |-> responses]

\* src/main.py analyze(document, collection=coll): the calls it can make, one
\* for each way the provider may answer when the research step is reached.
analyze(document, coll) ==
    LET url == Get(document, "url", "")
        domain_info == Get(document, "domain_info", EmptyDict)
    IN  IF IsNone(domain_info)
        THEN { Call(Raised("AttributeError", "'NoneType' object has no attribute 'get'"),
                    <<>>, <<>>, <<>>) }
        ELSE
        LET domain == Get(domain_info, "domain", <<>>)
            tld == Get(domain_info, "tld", <<>>)
            full_domain == FullDomain(domain, tld)
            existing_urheber == _check_database_for_domain(coll, full_domain)
            lookups == IF coll.kind = "absent" THEN <<>> ELSE << <<full_domain>> >>
        IN  IF domain = <<>> \/ tld = <<>>
            THEN { Call(Returned([urheber |-> "unbekannt", confidence |-> 0,
                                  method |-> "failure"]), <<>>, <<>>, <<>>) }
            ELSE IF coll.kind # "absent" /\ existing_urheber.raised
            THEN { Call(Raised("Exception", existing_urheber.value), lookups, <<>>, <<>>) }
            ELSE IF coll.kind # "absent" /\ Truthy(existing_urheber.value)
            THEN { Call(Returned([urheber |-> existing_urheber.value,
                                  confidence |-> CONFIDENCE_DATABASE,
                                  method |-> "database",
                                  domain |-> full_domain]), lookups, <<>>, <<>>) }
            ELSE { Call(Returned(research.result), lookups,
                        << <<full_domain, url>> >>, research.responses) :
                   research \in { _research_domain_with_web_search(full_domain, url, p) :
                                  p \in MainProviders } }

\* src/new.py analyze(document): kwargs are ignored; one call for each way the
\* provider may answer when responses.create is reached.
new_analyze(document) ==
    LET domain_info == Get(document, "domain_info", EmptyDict)
        url == Get(document, "url", "")
    IN  IF IsNone(domain_info)
        THEN { Call(Raised("AttributeError", "'NoneType' object has no attribute 'get'"),
                    <<>>, <<>>, <<>>) }
        ELSE
        LET domain == Get(domain_info, "domain", <<>>)
            tld == Get(domain_info, "tld", <<>>)
            full_domain == FullDomain(domain, tld)
            failed(response, message) ==
                Call(Returned(ErrorResult(message, full_domain)), <<>>,
                     << <<full_domain, url>> >>, <<response>>)
            run(response) ==
                IF response.raise THEN failed(response, response.message)
                ELSE LET result == json_loads(response.content)
                     IN  IF result.raised THEN failed(response, result.message)
                         ELSE IF ~IsDict(result.value)
                         THEN failed(response, "'list' object has no attribute 'update'")
                         ELSE Call(Returned(Update(result.value,
                                       [method |-> "responses_api_web_search",
                                        confidence |-> CONFIDENCE_RESPONSES_API,
                                        domain |-> full_domain])),
                                   <<>>, << <<full_domain, url>> >>, <<response>>)
        IN  IF domain = <<>> \/ tld = <<>>
            THEN { Call(Returned([urheber |-> "unbekannt", confidence |-> 0,
                                  method |-> "failure",
                                  reason |-> "Missing domain or TLD information."]),
                        <<>>, <<>>, <<>>) }
            ELSE { run(response) : response \in NewProviders }

(***************************************************************************)
(* Inputs                                                                  *)
(***************************************************************************)
Url == "https://www.a.b/x"
DomainNames == { <<>>, <<"a">> }
Tlds == { <<>>, <<"b">> }

\* document["domain_info"]: None, or a dict with or without domain and tld
DomainInfos ==
    { NoneObj, EmptyDict }
    \cup { [domain |-> d] : d \in DomainNames }
    \cup { [tld |-> t] : t \in Tlds }
    \cup { [domain |-> d, tld |-> t] : d \in DomainNames, t \in Tlds }

\* Documents with a url, with or without domain_info, and one without url.
Documents ==
    { [url |-> Url] }
    \cup { [url |-> Url, domain_info |-> i] : i \in DomainInfos }
    \cup { [domain_info |-> [domain |-> <<"a">>, tld |-> <<"b">>]] }

\* Sequences over S of length at most n
SeqsUpTo(S, n) == UNION { [1..k -> S] : k \in 0..n }

\* Records of the stores analyze runs against.
StoredRecords ==
    { [domain |-> <<"a", ".", "b">>, urheber |-> "Unternehmen"],
      [domain |-> <<"a", ".", "b">>, urheber |-> "unbekannt"],
      [domain |-> <<"a", ".", "b">>, urheber |-> None],
      [domain |-> <<"a", ".", "b">>, urheber |-> ""],
      [domain |-> <<"a", "-", "b">>, urheber |-> "staatlich"] }

\* Records of the stores _check_database_for_domain is applied to directly.
LookupDomains ==
    { <<"a", ".", "b">>, <<"A", ".", "B">>, <<"w", ".", "a", ".", "b">>,
      <<"a", "-", "b">>, <<"b", ".", "a">> }
LookupRecords ==
    { [domain |-> d] : d \in LookupDomains }
    \cup { [domain |-> d, urheber |-> u] :
            d \in LookupDomains, u \in { "", None, "Unternehmen", "staatlich" } }
LookupTargets == { <<"a", ".", "b">>, <<"b", ".", "a">> }

\* kwargs.get("collection", None): no collection, one whose queries raise, or
\* one holding records in natural order.
NoCollection == [kind |-> "absent", records |-> <<>>]
Mongo(records) == [kind |-> "mongo", records |-> records]
Collections(records) ==
    { NoCollection, [kind |-> "raising", records |-> <<>>] }
    \cup { Mongo(r) : r \in SeqsUpTo(records, MaxRecords) }

NoCall == [variant |-> "none"]
NoRepeat == [document |-> FALSE, responses |-> FALSE, outcome |-> FALSE]

\* What call cur shares with the call prev made before it on the same analyzer.
Repeat(prev, cur) ==
    IF prev.variant # cur.variant THEN NoRepeat
    ELSE [document |-> prev.document = cur.document,
          responses |-> prev.responses = cur.responses,
          outcome |-> prev.status = cur.status /\ prev.value = cur.value]

\* A freshly constructed analyzer, before any call and before its caller has
\* a collection to hand over.
Init ==
    /\ collection = NoCollection
    /\ client = "OpenAI"
    /\ last = NoCall
    /\ repeat = NoRepeat
    /\ lookup = NoCall

\* analyze storing every researched classification in the collection
AnalyzeCall_writes_back ==
    \E document \in Documents : \E made \in analyze(document, collection) :
        LET call == [variant |-> "main", document |-> document,
                     collection |-> collection, client |-> client] @@ made
        IN  /\ last' = call
            /\ repeat' = Repeat(last, call)
            /\ collection' =
                IF collection.kind = "mongo" /\ made.research # <<>>
                        /\ made.value.method = "web_search"
                THEN Mongo(Append(collection.records,
                        [domain |-> made.value.domain, urheber |-> made.value.urheber]))
                ELSE collection
            /\ UNCHANGED <<client, lookup>>

\* A caller runs the src/main.py analyzer on a document.
AnalyzeCall ==
    \E document \in Documents : \E made \in analyze(document, collection) :
        LET call == [variant |-> "main", document |-> document,
                     collection |-> collection, client |-> client] @@ made
        IN  /\ last' = call
            /\ repeat' = Repeat(last, call)
            /\ UNCHANGED <<collection, client, lookup>>

\* A caller runs the src/new.py analyzer on a document.
NewAnalyzeCall ==
    \E document \in Documents : \E made \in new_analyze(document) :
        LET call == [variant |-> "new", document |-> document,
                     collection |-> collection, client |-> client] @@ made
        IN  /\ last' = call
            /\ repeat' = Repeat(last, call)
            /\ UNCHANGED <<collection, client, lookup>>

\* Before its first call the caller settles on the collection it passes as
\* kwargs["collection"] from then on.
SetCollection ==
    /\ collection = NoCollection
    /\ last = NoCall
    /\ lookup = NoCall
    /\ collection' \in Collections(StoredRecords)
    /\ UNCHANGED <<client, last, repeat, lookup>>

Next == AnalyzeCall \/ NewAnalyzeCall \/ SetCollection

Spec == Init /\ [][Next]_vars

\* _check_database_for_domain applied directly to a store and a target domain.
LookupCall ==
    \E domain \in LookupTargets :
        /\ lookup' = [variant |-> "lookup", domain |-> domain,
                      found |-> _check_database_for_domain(collection, domain)]
        /\ UNCHANGED <<collection, client, last, repeat>>

\* Before its first lookup the caller settles on the collection it passes to
\* _check_database_for_domain.
SetLookupCollection ==
    /\ collection = NoCollection
    /\ last = NoCall
    /\ lookup = NoCall
    /\ collection' \in Collections(LookupRecords)
    /\ UNCHANGED <<client, last, repeat, lookup>>

NextLookup == LookupCall \/ SetLookupCollection

SpecLookup == Init /\ [][NextLookup]_vars

(***************************************************************************)
(* Vocabulary of the properties                                            *)
(***************************************************************************)
Called == last.variant # "none"
Result == last.value
ReturnedResult == Called /\ last.status = "returned"

\* The document's domain and tld as the spec reads them: empty when the
\* descriptor, or the subfield, is absent or null.
Descriptor(document) ==
    IF "domain_info" \in DOMAIN document /\ ~IsNone(document.domain_info)
    THEN document.domain_info ELSE EmptyDict
DomainOf(document) == Get(Descriptor(document), "domain", <<>>)
TldOf(document) == Get(Descriptor(document), "tld", <<>>)
Complete(document) == DomainOf(document) # <<>> /\ TldOf(document) # <<>>
Target(document) == FullDomain(DomainOf(document), TldOf(document))

\* The spec's method "research" is "web_search" in src/main.py and
\* "responses_api_web_search" in src/new.py; its fixed sub-1.0 confidence is
\* 0.8 and 0.9 there.
ResearchMethod(variant) ==
    IF variant = "main" THEN "web_search" ELSE "responses_api_web_search"
ResearchConfidence(variant) ==
    IF variant = "main" THEN CONFIDENCE_WEB_SEARCH ELSE CONFIDENCE_RESPONSES_API

\* The research step ran, and the provider's last answer was ...
Researched == Called /\ last.research # <<>>
FinalResponse == last.responses[Len(last.responses)]
\* ... an exception,
ProviderRaised == Researched /\ FinalResponse.raise
\* ... a tool call with malformed arguments or a malformed final payload,
ProviderMalformed ==
    /\ Researched
    /\ ~FinalResponse.raise
    /\ \/ /\ "arguments" \in DOMAIN FinalResponse
          /\ FinalResponse.arguments = Malformed
       \/ /\ "content" \in DOMAIN FinalResponse
          /\ FinalResponse.content = Malformed
\* ... a JSON object as the final payload.
FinalObject ==
    /\ Researched
    /\ ~FinalResponse.raise
    /\ "content" \in DOMAIN FinalResponse
    /\ "json" \in DOMAIN FinalResponse.content
    /\ FinalResponse.content.json = "object"
Payload == FinalResponse.content.value
ValidCategory == FinalObject /\ "urheber" \in DOMAIN Payload /\ Payload.urheber \in Categories
InvalidCategory == FinalObject /\ ~("urheber" \in DOMAIN Payload /\ Payload.urheber \in Categories)

IsFailureEnvelope(r) ==
    /\ { "urheber", "confidence", "method" } \subseteq DOMAIN r
    /\ r.method = "failure" /\ r.urheber = "unbekannt" /\ r.confidence = 0
    /\ "domain" \notin DOMAIN r

IsErrorEnvelope(r, domain) ==
    /\ DOMAIN r = { "urheber", "confidence", "method", "error", "domain" }
    /\ r.method = "error" /\ r.urheber = "unbekannt" /\ r.confidence = 0
    /\ r.domain = domain

IsDatabaseHit(r, v, domain) ==
    r = [urheber |-> v, confidence |-> CONFIDENCE_DATABASE, method |-> "database",
         domain |-> domain]

\* Record i of the store is matched by the query for target.
QueryMatches(i, target) ==
    /\ RegexSearch(target, collection.records[i].domain)
    /\ UrheberQuery(collection.records[i])
FirstMatch(i, target) ==
    QueryMatches(i, target) /\ \A j \in 1..(i - 1) : ~QueryMatches(j, target)

C2_MissingInputFails ==
    (Called /\ ~Complete(last.document))
    => /\ last.status = "returned"
       /\ IsFailureEnvelope(Result)
       /\ last.research = <<>>

(***************************************************************************)
(* C3  A raising store degrades to research                                *)
(***************************************************************************)
\* C3: with a store that raises on every query and a document with non-empty
\* domain and tld, analyze raises nothing, treats the lookup as a miss,
\* runs the research step with (domain.tld, url) and returns its result.
C3_StoreErrorDegrades ==
    (Called /\ last.variant = "main" /\ Complete(last.document)
        /\ collection.kind = "raising")
    => /\ last.status = "returned"
       /\ last.lookups = << <<Target(last.document)>> >>
       /\ last.research = << <<Target(last.document), Get(last.document, "url", "")>> >>
       /\ Len(last.responses) >= 1
       /\ Result.method \in { "web_search", "error" }
       /\ Result.domain = Target(last.document)
       /\ ProviderRaised => Result.method = "error"

\* C3 witness: a three-call research returned although the store raises.
C3_Witness ==
    /\ ReturnedResult /\ last.variant = "main"
    /\ collection.kind = "raising"
    /\ Complete(last.document)
    /\ Result.method = "web_search"
    /\ Len(last.responses) = 3

(***************************************************************************)
(* C4  Successful research                                                 *)
(***************************************************************************)
\* C4: on a miss, when the provider's final answer names a category c of the
\* closed set, analyze returns urheber c, the research method, the fixed
\* sub-1.0 confidence, domain domain.tld, and justification and sources.
C4_ResearchSuccess ==
    ValidCategory
    => /\ last.status = "returned"
       /\ Result.urheber = Payload.urheber
       /\ Result.method = ResearchMethod(last.variant)
       /\ Result.confidence = ResearchConfidence(last.variant)
       /\ Result.confidence < CONFIDENCE_DATABASE
       /\ Result.domain = Target(last.document)
       /\ { "begruendung", "quellen" } \subseteq DOMAIN Result

C6_ConfidenceFollowsMethod ==
    ReturnedResult
    => /\ { "urheber", "confidence", "method" } \subseteq DOMAIN Result
       /\ Result.confidence = CONFIDENCE_DATABASE <=> Result.method = "database"
       /\ Result.confidence = ResearchConfidence(last.variant)
            <=> Result.method = ResearchMethod(last.variant)
       /\ Result.confidence = 0 <=> Result.method \in { "failure", "error" }
       /\ Result.urheber = "unbekannt" <=> Result.method \in { "failure", "error" }

(***************************************************************************)
(* C7  analyze never raises                                                *)
(***************************************************************************)
\* C7: every analyze call, whatever the document, the store and the
\* provider, ends by returning a result that carries a method field.
C7_NeverRaises ==
    Called => (last.status = "returned" /\ "method" \in DOMAIN Result)

(***************************************************************************)
(* C8  Idempotence                                                         *)
(***************************************************************************)
\* C8 as stated: a second analyze call in a row on the same analyzer with the
\* same document and an unchanged store yields the same result, and a call
\* changes neither the store nor the analyzer's state.
C8_AsStated ==
    Called
    => /\ repeat.document => repeat.outcome
       /\ collection = last.collection
       /\ client = last.client

\* C8 amended: a second analyze call in a row on the same analyzer with the
\* same document, an unchanged store and the same provider responses yields
\* the same result; a call changes neither the store nor the analyzer's state.
C8_SameAnswersSameResult ==
    Called
    => /\ (repeat.document /\ repeat.responses) => repeat.outcome
       /\ collection = last.collection
       /\ client = last.client

\* C8 witness: the same document researched twice in a row with the same
\* provider answers.
C8_Witness ==
    /\ ReturnedResult
    /\ repeat.document /\ repeat.responses /\ repeat.outcome
    /\ ValidCategory
    /\ collection.kind = "mongo"

(***************************************************************************)
(* C9  A label outside the closed set is a research error                  *)
(***************************************************************************)
\* C9: when the provider's final payload is a JSON object whose urheber is
\* missing or outside the seven categories, analyze returns method error,
\* urheber unbekannt and confidence 0, never the out-of-set label.
C9_OutOfSetIsError ==
    InvalidCategory
    => /\ last.status = "returned"
       /\ IsErrorEnvelope(Result, Target(last.document))

(***************************************************************************)
(* C10  What the store lookup returns                                      *)
(***************************************************************************)
\* text contains target as a case-insensitive literal substring
ContainsLiteral(target, text) ==
    \E off \in 0..(Len(text) - Len(target)) :
        \A i \in 1..Len(target) : Lower(target[i]) = Lower(text[off + i])

\* Record i carries a non-empty urheber and a domain containing the target.
KnownFor(i, target) ==
    /\ "urheber" \in DOMAIN collection.records[i]
    /\ Truthy(collection.records[i].urheber)
    /\ ContainsLiteral(target, collection.records[i].domain)

\* C10: _check_database_for_domain returns a value v only if a record with
\* urheber v, v non-empty, has a domain field containing the target as a
\* case-insensitive literal substring; and when a non-failing store holds
\* such a record it returns the urheber of one of them.
C10_LookupIsLiteralSubstring ==
    lookup.variant = "lookup"
    => /\ ~lookup.found.raised
       /\ lookup.found.value # None
            => \E i \in 1..Len(collection.records) :
                /\ KnownFor(i, lookup.domain)
                /\ collection.records[i].urheber = lookup.found.value
       /\ (collection.kind = "mongo"
            /\ \E i \in 1..Len(collection.records) : KnownFor(i, lookup.domain))
            => \E i \in 1..Len(collection.records) :
                /\ KnownFor(i, lookup.domain)
                /\ collection.records[i].urheber = lookup.found.value

====
